---- MODULE Spec2Model ----
(***************************************************************************)
(* State-machine model of src/app.py: the Flask store with a session cart, *)
(* checkout and user accounts.  A request is one atomic step, the          *)
(* before_request hook followed by the view function, except in SpecTabs,  *)
(* where two tabs of one browser have requests in flight at the same time. *)
(* Strings the code inspects character by character (cart keys, usernames, *)
(* passwords) are sequences of characters; a character is a one-letter     *)
(* string, or a "uXXXX" code-point name for a character outside ASCII.     *)
(***************************************************************************)
EXTENDS Integers, Sequences, FiniteSets, TLC

VARIABLES
    products,   \* the Product table: id -> row
    users,      \* the User table: rows in id order
    session,    \* the session cookie held by the browser: a dict
    before,     \* history: the session cookie and the User table the last request met
    request,    \* the request handled last
    response,   \* the response to it
    addCount,   \* history: per product id, add_to_cart requests since its entry was absent
    inflight,   \* per tab, the request sent and not yet answered, with the cookie it carries
    registered  \* history: the forms of the registrations that succeeded, with the id given

vars ==
    <<products, users, session, before, request, response, addCount, inflight, registered>>

----------------------------------------------------------------------------
(* Bounds of the model.                                                    *)

\* Most units (sum of quantities) a cart is grown to.
MaxUnits == 2

----------------------------------------------------------------------------
(* Python dict, Optional and str as values.                                *)

EmptyDict == [k \in {} |-> k]

Put(d, k, v) == [x \in (DOMAIN d) \cup {k} |-> IF x = k THEN v ELSE d[x]]

Pop(d, k) == [x \in (DOMAIN d) \ {k} |-> d[x]]

\* d.get(k, default)
Get(d, k, default) == IF k \in DOMAIN d THEN d[k] ELSE default

\* None is the empty set, a value v is {v}.
None == {}

Some(v) == {v}

Val(opt) == CHOOSE v \in opt : TRUE

DigitChars == <<"0", "1", "2", "3", "4", "5", "6", "7", "8", "9">>

DigitValue(c) == (CHOOSE i \in 1..10 : DigitChars[i] = c) - 1

RECURSIVE Str(_)
\* str(n) of an int n >= 0: its decimal digits.
Str(n) == IF n < 10 THEN <<DigitChars[n + 1]>>
          ELSE Str(n \div 10) \o <<DigitChars[(n % 10) + 1]>>

RECURSIVE ParseInt(_)
\* int(s) of a string of decimal digits.
ParseInt(s) == IF Len(s) = 1 THEN DigitValue(s[1])
               ELSE 10 * ParseInt(SubSeq(s, 1, Len(s) - 1)) + DigitValue(s[Len(s)])

RECURSIVE StrLess(_, _)
\* a < b for strings of digits (code-point order, character by character).
StrLess(a, b) ==
    IF Len(b) = 0 THEN FALSE
    ELSE IF Len(a) = 0 THEN TRUE
    ELSE IF a[1] = b[1] THEN StrLess(Tail(a), Tail(b))
    ELSE DigitValue(a[1]) < DigitValue(b[1])

RECURSIVE DictKeys(_)
\* The keys of the session cart in the order the loop of view_cart and checkout
\* meets them: the cart is the dict loaded from the cookie, whose JSON is written
\* with sorted keys.
DictKeys(d) ==
    IF DOMAIN d = {} THEN <<>>
    ELSE LET first == CHOOSE k \in DOMAIN d : \A o \in DOMAIN d : o = k \/ StrLess(k, o)
         IN  <<first>> \o DictKeys(Pop(d, first))

\* Decimal(cents) / 100: the exact decimal, as whole units and hundredths.
DecimalDiv100(cents) == [units |-> cents \div 100, hundredths |-> cents % 100]

----------------------------------------------------------------------------
(* The Product table.                                                      *)

sample_products == <<
    [name |-> "Wireless Mouse", price |-> 2999],
    [name |-> "Mechanical Keyboard", price |-> 8499],
    [name |-> "USB-C Charger", price |-> 1999],
    [name |-> "Noise Cancelling Headphones", price |-> 12999] >>

\* seed_data: fill an empty table with the samples, ids 1.. in order.
seed_data(table) ==
    IF DOMAIN table = {}
    THEN [i \in 1..Len(sample_products) |->
            [id |-> i, name |-> sample_products[i].name, price |-> sample_products[i].price]]
    ELSE table

\* Product.query.get(product_id): the row or None.
Product_query_get(table, product_id) ==
    IF product_id \in DOMAIN table THEN Some(table[product_id]) ELSE None

\* Product.query.all()
Product_query_all(table) == table

----------------------------------------------------------------------------
(* Responses.                                                              *)

redirect(endpoint, flashes) ==
    [kind |-> "redirect", target |-> endpoint, flashes |-> flashes, context |-> EmptyDict]

render_template(template, context) ==
    [kind |-> "render", target |-> template, flashes |-> <<>>, context |-> context]

Result(sess, usrs, resp) == [session |-> sess, users |-> usrs, response |-> resp]

----------------------------------------------------------------------------
(* The cart.                                                               *)

\* before_request hook
ensure_cart_exists(sess) ==
    IF "cart" \notin DOMAIN sess THEN Put(sess, "cart", EmptyDict) ELSE sess

index(sess, table, usrs) ==
    Result(sess, usrs,
           render_template("index.html", [products |-> Product_query_all(table)]))

\* add_to_cart storing 1 instead of incrementing
add_to_cart_no_increment(sess, table, usrs, product_id) ==
    LET product == Product_query_get(table, product_id)
        cart    == Get(sess, "cart", EmptyDict)
        cart2   == Put(cart, Str(product_id), 1)
    IN  IF product = None
        THEN Result(sess, usrs, redirect("index", <<>>))
        ELSE Result(Put(sess, "cart", cart2), usrs, redirect("index", <<>>))

\* add_to_cart without the test that the product exists
add_to_cart_any_id(sess, table, usrs, product_id) ==
    LET cart    == Get(sess, "cart", EmptyDict)
        key     == Str(product_id)
        cart2   == Put(cart, key, Get(cart, key, 0) + 1)
    IN  Result(Put(sess, "cart", cart2), usrs, redirect("index", <<>>))

\* add_to_cart with a cart key of two digits or more, padded with a zero
add_to_cart_padded_key(sess, table, usrs, product_id) ==
    LET product == Product_query_get(table, product_id)
        cart    == Get(sess, "cart", EmptyDict)
        key     == IF product_id < 10 THEN <<"0">> \o Str(product_id) ELSE Str(product_id)
        cart2   == Put(cart, key, Get(cart, key, 0) + 1)
    IN  IF product = None
        THEN Result(sess, usrs, redirect("index", <<>>))
        ELSE Result(Put(sess, "cart", cart2), usrs, redirect("index", <<>>))

add_to_cart(sess, table, usrs, product_id) ==
    LET product == Product_query_get(table, product_id)
        cart    == Get(sess, "cart", EmptyDict)
        key     == Str(product_id)
        cart2   == Put(cart, key, Get(cart, key, 0) + 1)
    IN  IF product = None
        THEN Result(sess, usrs, redirect("index", <<>>))
        ELSE Result(Put(sess, "cart", cart2), usrs, redirect("index", <<>>))

RECURSIVE view_cart_loop_unit_price(_, _, _, _, _)
\* The loop of view_cart with line_total = product.price, the quantity forgotten
view_cart_loop_unit_price(cart, table, keys, items, total_cents) ==
    IF keys = <<>> THEN [items |-> items, total_cents |-> total_cents]
    ELSE LET pid_str    == Head(keys)
             qty        == cart[pid_str]
             product    == Product_query_get(table, ParseInt(pid_str))
             line_total == Val(product).price
         IN  IF product # None
             THEN view_cart_loop_unit_price(cart, table, Tail(keys),
                      Append(items, [product |-> Val(product), quantity |-> qty,
                                     line_total |-> DecimalDiv100(line_total)]),
                      total_cents + line_total)
             ELSE view_cart_loop_unit_price(cart, table, Tail(keys), items, total_cents)

RECURSIVE view_cart_loop(_, _, _, _, _)
\* The for loop of view_cart over the keys still to visit.
view_cart_loop(cart, table, keys, items, total_cents) ==
    IF keys = <<>> THEN [items |-> items, total_cents |-> total_cents]
    ELSE LET pid_str    == Head(keys)
             qty        == cart[pid_str]
             product    == Product_query_get(table, ParseInt(pid_str))
             line_total == Val(product).price * qty
         IN  IF product # None
             THEN view_cart_loop(cart, table, Tail(keys),
                      Append(items, [product |-> Val(product), quantity |-> qty,
                                     line_total |-> DecimalDiv100(line_total)]),
                      total_cents + line_total)
             ELSE view_cart_loop(cart, table, Tail(keys), items, total_cents)

view_cart(sess, table, usrs) ==
    LET cart == Get(sess, "cart", EmptyDict)
        done == view_cart_loop(cart, table, DictKeys(cart), <<>>, 0)
    IN  Result(sess, usrs,
               render_template("cart.html",
                   [items |-> done.items, total |-> DecimalDiv100(done.total_cents)]))

\* remove_from_cart dropping the whole entry whatever its quantity
remove_from_cart_all(sess, table, usrs, product_id) ==
    LET cart    == Get(sess, "cart", EmptyDict)
        pid_str == Str(product_id)
    IN  IF pid_str \in DOMAIN cart
        THEN Result(Put(sess, "cart", Pop(cart, pid_str)), usrs, redirect("view_cart", <<>>))
        ELSE Result(sess, usrs, redirect("view_cart", <<>>))

\* remove_from_cart decrementing without the test for the last unit
remove_from_cart_to_zero(sess, table, usrs, product_id) ==
    LET cart    == Get(sess, "cart", EmptyDict)
        pid_str == Str(product_id)
    IN  IF pid_str \in DOMAIN cart
        THEN Result(Put(sess, "cart", [cart EXCEPT ![pid_str] = @ - 1]), usrs,
                    redirect("view_cart", <<>>))
        ELSE Result(sess, usrs, redirect("view_cart", <<>>))

remove_from_cart(sess, table, usrs, product_id) ==
    LET cart    == Get(sess, "cart", EmptyDict)
        pid_str == Str(product_id)
        cart2   == IF cart[pid_str] > 1
                   THEN [cart EXCEPT ![pid_str] = @ - 1]
                   ELSE Pop(cart, pid_str)
    IN  IF pid_str \in DOMAIN cart
        THEN Result(Put(sess, "cart", cart2), usrs, redirect("view_cart", <<>>))
        ELSE Result(sess, usrs, redirect("view_cart", <<>>))

RECURSIVE checkout_loop(_, _, _, _, _)
\* The for loop of checkout over the keys still to visit.
checkout_loop(cart, table, keys, items, total_cents) ==
    IF keys = <<>> THEN [items |-> items, total_cents |-> total_cents]
    ELSE LET pid_str    == Head(keys)
             qty        == cart[pid_str]
             product    == Product_query_get(table, ParseInt(pid_str))
             line_total == Val(product).price * qty
         IN  IF product # None
             THEN checkout_loop(cart, table, Tail(keys),
                      Append(items, [product |-> Val(product), quantity |-> qty,
                                     line_total |-> DecimalDiv100(line_total)]),
                      total_cents + line_total)
             ELSE checkout_loop(cart, table, Tail(keys), items, total_cents)

\* checkout clearing the cart only when it shows an order
checkout_clear_if_items(sess, table, usrs) ==
    LET cart == Get(sess, "cart", EmptyDict)
        done == checkout_loop(cart, table, DictKeys(cart), <<>>, 0)
    IN  Result(IF done.items # <<>> THEN Put(sess, "cart", EmptyDict) ELSE sess, usrs,
               render_template("checkout.html",
                   [items |-> done.items, total |-> DecimalDiv100(done.total_cents)]))

\* checkout clearing the whole session with the cart
checkout_clears_session(sess, table, usrs) ==
    LET cart == Get(sess, "cart", EmptyDict)
        done == checkout_loop(cart, table, DictKeys(cart), <<>>, 0)
    IN  Result(Put(EmptyDict, "cart", EmptyDict), usrs,
               render_template("checkout.html",
                   [items |-> done.items, total |-> DecimalDiv100(done.total_cents)]))

checkout(sess, table, usrs) ==
    LET cart == Get(sess, "cart", EmptyDict)
        done == checkout_loop(cart, table, DictKeys(cart), <<>>, 0)
    IN  Result(Put(sess, "cart", EmptyDict), usrs,
               render_template("checkout.html",
                   [items |-> done.items, total |-> DecimalDiv100(done.total_cents)]))

----------------------------------------------------------------------------
(* Characters and the regular expressions of is_password_valid.            *)

LowerAZ == {"a", "b", "c", "d", "e", "f", "g", "h", "i", "j", "k", "l", "m",
            "n", "o", "p", "q", "r", "s", "t", "u", "v", "w", "x", "y", "z"}

UpperAZ == {"A", "B", "C", "D", "E", "F", "G", "H", "I", "J", "K", "L", "M",
            "N", "O", "P", "Q", "R", "S", "T", "U", "V", "W", "X", "Y", "Z"}

Digits09 == {"0", "1", "2", "3", "4", "5", "6", "7", "8", "9"}

\* Decimal digits outside ASCII (Unicode category Nd); u0663 is ARABIC-INDIC DIGIT THREE.
OtherDecimalDigits == {"u0663"}

\* What str.strip() removes.
Whitespace == {" ", "\t", "\n"}

\* re.search of one character class in pwd.
re_search(class, pwd) == \E i \in 1..Len(pwd) : pwd[i] \in class

\* [a-z]
re_lower(pwd) == re_search(LowerAZ, pwd)

\* [A-Z]
re_upper(pwd) == re_search(UpperAZ, pwd)

\* \d on a str pattern: any Unicode decimal digit
re_digit(pwd) == re_search(Digits09 \cup OtherDecimalDigits, pwd)

\* [^A-Za-z0-9]
re_special(pwd) == \E i \in 1..Len(pwd) : pwd[i] \notin (LowerAZ \cup UpperAZ \cup Digits09)

MinPasswordLen == 8

is_password_valid(pwd) ==
    /\ Len(pwd) >= MinPasswordLen
    /\ re_lower(pwd)
    /\ re_upper(pwd)
    /\ re_digit(pwd)
    /\ re_special(pwd)

RECURSIVE lstrip(_)
lstrip(s) == IF s # <<>> /\ Head(s) \in Whitespace THEN lstrip(Tail(s)) ELSE s

RECURSIVE rstrip(_)
rstrip(s) == IF s # <<>> /\ s[Len(s)] \in Whitespace
             THEN rstrip(SubSeq(s, 1, Len(s) - 1)) ELSE s

\* str.strip()
strip(s) == rstrip(lstrip(s))

----------------------------------------------------------------------------
(* The User table and password hashes.                                     *)

\* The digest the hash function computes of a password under a salt, as an ideal
\* one-way function: equal digests only for equal salt and password.
hash_internal(salt, password) == [digest_of |-> password, salted_with |-> salt]

\* werkzeug's generate_password_hash with the salt it drew: method$salt$digest.
generate_password_hash(password, salt) ==
    <<"scrypt", salt, hash_internal(salt, password)>>

\* werkzeug's check_password_hash: a value that is not method$salt$digest verifies
\* nothing.
check_password_hash(pwhash, password) ==
    /\ Len(pwhash) = 3
    /\ pwhash[3] = hash_internal(pwhash[2], password)

\* set_password keeping the password as it is
set_password_plain(user, password, salt) ==
    [user EXCEPT !.password_hash = password]

\* User.set_password
set_password(user, password, salt) ==
    [user EXCEPT !.password_hash = generate_password_hash(password, salt)]

\* User.check_password
check_password(user, password) == check_password_hash(user.password_hash, password)

\* User.query.filter_by(username=username).first()
User_filter_by_username(usrs, username) ==
    LET hits == {i \in 1..Len(usrs) : usrs[i].username = username}
    IN  IF hits = {} THEN None
        ELSE Some(usrs[CHOOSE i \in hits : \A j \in hits : i <= j])

\* User.query.get(user_id)
User_query_get(usrs, user_id) ==
    LET hits == {i \in 1..Len(usrs) : usrs[i].id = user_id}
    IN  IF hits = {} THEN None ELSE Some(usrs[CHOOSE i \in hits : TRUE])

\* db.session.add(user); db.session.commit(): the row gets the next id.
db_add_user(usrs, user) == Append(usrs, [user EXCEPT !.id = Len(usrs) + 1])

----------------------------------------------------------------------------
(* Accounts.  flash(msg) queues msg for the next rendered page; the model  *)
(* records the messages a request flashed in its response.                 *)

MsgRequired == "Username and password are required."

MsgExists == "Username already exists."

MsgWeak == "Password must be at least 8 characters long and include uppercase, lowercase, numeric and special characters."

MsgInvalid == "Invalid username or password."

MsgReset == "If the account exists, reset instructions have been sent."

\* register without the test for a taken username
register_no_taken_test(sess, usrs, method, form, salt) ==
    LET username == strip(Get(form, "username", <<>>))
        password == Get(form, "password", <<>>)
        user     == set_password([id |-> 0, username |-> username, password_hash |-> <<>>],
                                 password, salt)
        usrs2    == db_add_user(usrs, user)
    IN  IF method = "POST"
        THEN IF username = <<>> \/ password = <<>>
             THEN Result(sess, usrs, redirect("register", <<MsgRequired>>))
             ELSE IF ~is_password_valid(password)
             THEN Result(sess, usrs, redirect("register", <<MsgWeak>>))
             ELSE Result(Put(sess, "user_id", usrs2[Len(usrs2)].id), usrs2,
                         redirect("index", <<>>))
        ELSE Result(sess, usrs, render_template("register.html", EmptyDict))

\* register committing the user before it validates the password
register_commit_first(sess, usrs, method, form, salt) ==
    LET username == strip(Get(form, "username", <<>>))
        password == Get(form, "password", <<>>)
        user     == set_password([id |-> 0, username |-> username, password_hash |-> <<>>],
                                 password, salt)
        usrs2    == db_add_user(usrs, user)
    IN  IF method = "POST"
        THEN IF username = <<>> \/ password = <<>>
             THEN Result(sess, usrs, redirect("register", <<MsgRequired>>))
             ELSE IF User_filter_by_username(usrs, username) # None
             THEN Result(sess, usrs, redirect("register", <<MsgExists>>))
             ELSE IF ~is_password_valid(password)
             THEN Result(Put(sess, "user_id", usrs2[Len(usrs2)].id), usrs2,
                         redirect("register", <<MsgWeak>>))
             ELSE Result(Put(sess, "user_id", usrs2[Len(usrs2)].id), usrs2,
                         redirect("index", <<>>))
        ELSE Result(sess, usrs, render_template("register.html", EmptyDict))

\* register: form is request.form, salt the salt generate_password_hash draws.
\* register ending the permanence of the session when it succeeds
register_not_permanent(sess, usrs, method, form, salt) ==
    LET username == strip(Get(form, "username", <<>>))
        password == Get(form, "password", <<>>)
        user     == set_password([id |-> 0, username |-> username, password_hash |-> <<>>],
                                 password, salt)
        usrs2    == db_add_user(usrs, user)
    IN  IF method = "POST"
        THEN IF username = <<>> \/ password = <<>>
             THEN Result(sess, usrs, redirect("register", <<MsgRequired>>))
             ELSE IF User_filter_by_username(usrs, username) # None
             THEN Result(sess, usrs, redirect("register", <<MsgExists>>))
             ELSE IF ~is_password_valid(password)
             THEN Result(sess, usrs, redirect("register", <<MsgWeak>>))
             ELSE Result(Put(Put(sess, "user_id", usrs2[Len(usrs2)].id),
                             "_permanent", FALSE),
                         usrs2, redirect("index", <<>>))
        ELSE Result(sess, usrs, render_template("register.html", EmptyDict))

register(sess, usrs, method, form, salt) ==
    LET username == strip(Get(form, "username", <<>>))
        password == Get(form, "password", <<>>)
        user     == set_password([id |-> 0, username |-> username, password_hash |-> <<>>],
                                 password, salt)
        usrs2    == db_add_user(usrs, user)
    IN  IF method = "POST"
        THEN IF username = <<>> \/ password = <<>>
             THEN Result(sess, usrs, redirect("register", <<MsgRequired>>))
             ELSE IF User_filter_by_username(usrs, username) # None
             THEN Result(sess, usrs, redirect("register", <<MsgExists>>))
             ELSE IF ~is_password_valid(password)
             THEN Result(sess, usrs, redirect("register", <<MsgWeak>>))
             ELSE Result(Put(sess, "user_id", usrs2[Len(usrs2)].id), usrs2,
                         redirect("index", <<>>))
        ELSE Result(sess, usrs, render_template("register.html", EmptyDict))

\* bool(x) of an Optional[str]
bool(x) == x # None /\ Val(x) # <<>>

\* login telling an unknown username from a wrong password
login_tells_unknown_user(sess, usrs, method, form) ==
    LET username == strip(Get(form, "username", <<>>))
        password == Get(form, "password", <<>>)
        remember == IF "remember" \in DOMAIN form THEN Some(form["remember"]) ELSE None
        user     == User_filter_by_username(usrs, username)
    IN  IF method = "POST"
        THEN IF user # None /\ check_password(Val(user), password)
             THEN Result(Put(Put(sess, "user_id", Val(user).id), "_permanent", bool(remember)),
                         usrs, redirect("index", <<>>))
             ELSE IF user = None
             THEN Result(sess, usrs, redirect("login", <<"Unknown username.">>))
             ELSE Result(sess, usrs, redirect("login", <<MsgInvalid>>))
        ELSE Result(sess, usrs, render_template("login.html", EmptyDict))

\* login marking the session permanent when remember is set and leaving the
\* flag alone when it is not
login_keeps_permanent(sess, usrs, method, form) ==
    LET username == strip(Get(form, "username", <<>>))
        password == Get(form, "password", <<>>)
        remember == IF "remember" \in DOMAIN form THEN Some(form["remember"]) ELSE None
        user     == User_filter_by_username(usrs, username)
    IN  IF method = "POST"
        THEN IF user # None /\ check_password(Val(user), password)
             THEN Result(IF bool(remember)
                         THEN Put(Put(sess, "user_id", Val(user).id), "_permanent", TRUE)
                         ELSE Put(sess, "user_id", Val(user).id),
                         usrs, redirect("index", <<>>))
             ELSE Result(sess, usrs, redirect("login", <<MsgInvalid>>))
        ELSE Result(sess, usrs, render_template("login.html", EmptyDict))

\* login starting a new session for the user on success
login_fresh_session(sess, usrs, method, form) ==
    LET username == strip(Get(form, "username", <<>>))
        password == Get(form, "password", <<>>)
        remember == IF "remember" \in DOMAIN form THEN Some(form["remember"]) ELSE None
        user     == User_filter_by_username(usrs, username)
    IN  IF method = "POST"
        THEN IF user # None /\ check_password(Val(user), password)
             THEN Result(Put(Put(EmptyDict, "user_id", Val(user).id),
                             "_permanent", bool(remember)),
                         usrs, redirect("index", <<>>))
             ELSE Result(sess, usrs, redirect("login", <<MsgInvalid>>))
        ELSE Result(sess, usrs, render_template("login.html", EmptyDict))

\* login looking the username up as typed, not stripped
login_no_strip(sess, usrs, method, form) ==
    LET username == Get(form, "username", <<>>)
        password == Get(form, "password", <<>>)
        remember == IF "remember" \in DOMAIN form THEN Some(form["remember"]) ELSE None
        user     == User_filter_by_username(usrs, username)
    IN  IF method = "POST"
        THEN IF user # None /\ check_password(Val(user), password)
             THEN Result(Put(Put(sess, "user_id", Val(user).id), "_permanent", bool(remember)),
                         usrs, redirect("index", <<>>))
             ELSE Result(sess, usrs, redirect("login", <<MsgInvalid>>))
        ELSE Result(sess, usrs, render_template("login.html", EmptyDict))

login(sess, usrs, method, form) ==
    LET username == strip(Get(form, "username", <<>>))
        password == Get(form, "password", <<>>)
        remember == IF "remember" \in DOMAIN form THEN Some(form["remember"]) ELSE None
        user     == User_filter_by_username(usrs, username)
    IN  IF method = "POST"
        THEN IF user # None /\ check_password(Val(user), password)
             THEN Result(Put(Put(sess, "user_id", Val(user).id), "_permanent", bool(remember)),
                         usrs, redirect("index", <<>>))
             ELSE Result(sess, usrs, redirect("login", <<MsgInvalid>>))
        ELSE Result(sess, usrs, render_template("login.html", EmptyDict))

\* logout removing user_id only from a session that is not permanent
logout_unless_permanent(sess, usrs) ==
    Result(IF Get(sess, "_permanent", FALSE) THEN sess ELSE Pop(sess, "user_id"),
           usrs, redirect("index", <<>>))

logout(sess, usrs) == Result(Pop(sess, "user_id"), usrs, redirect("index", <<>>))

\* profile leaving a user_id that resolves to no user in the session
profile_keeps_stale(sess, usrs) ==
    LET user_id == IF "user_id" \in DOMAIN sess THEN Some(sess["user_id"]) ELSE None
        user    == User_query_get(usrs, Val(user_id))
    IN  IF user_id = None \/ Val(user_id) = 0
        THEN Result(sess, usrs, redirect("login", <<>>))
        ELSE IF user = None
        THEN Result(sess, usrs, redirect("login", <<>>))
        ELSE Result(sess, usrs, render_template("profile.html", [user |-> Val(user)]))

profile(sess, usrs) ==
    LET user_id == IF "user_id" \in DOMAIN sess THEN Some(sess["user_id"]) ELSE None
        user    == User_query_get(usrs, Val(user_id))
    IN  IF user_id = None \/ Val(user_id) = 0
        THEN Result(sess, usrs, redirect("login", <<>>))
        ELSE IF user = None
        THEN Result(Pop(sess, "user_id"), usrs, redirect("login", <<>>))
        ELSE Result(sess, usrs, render_template("profile.html", [user |-> Val(user)]))

forgot_password(sess, usrs, method) ==
    IF method = "POST"
    THEN Result(sess, usrs, redirect("login", <<MsgReset>>))
    ELSE Result(sess, usrs, render_template("forgot_password.html", EmptyDict))

\* Days a permanent session lasts.
permanent_session_lifetime == 30

\* When the cookie of a session expires: after the permanent lifetime when the
\* session is permanent, with the browser session (None) when it is not.
get_expiration_time(sess) ==
    IF Get(sess, "_permanent", FALSE) THEN Some(permanent_session_lifetime) ELSE None

----------------------------------------------------------------------------
(* Inputs of the requests.                                                 *)

\* <int:product_id> of the URL: the seeded ids, ids of no product, a two-character id
ProductIdInputs == {0, 1, 2, 3, 4, 5, 10}

FewProductIds == {1}

alice == <<"a", "l", "i", "c", "e">>

bob == <<"b", "o", "b">>

UsernameInputs == {<<>>, alice, <<" ">> \o alice \o <<" ">>}

\* "Abcdefg1!": all four classes, 9 characters
PwdGood == <<"A", "b", "c", "d", "e", "f", "g", "1", "!">>

\* "Abcdefgh!": no digit
PwdNoDigit == <<"A", "b", "c", "d", "e", "f", "g", "h", "!">>

\* "Abcde1!": all four classes, 7 characters
PwdShort == <<"A", "b", "c", "d", "e", "1", "!">>

\* "abcdefg1!": no uppercase letter
PwdNoUpper == <<"a", "b", "c", "d", "e", "f", "g", "1", "!">>

\* "ABCDEFG1!": no lowercase letter
PwdNoLower == <<"A", "B", "C", "D", "E", "F", "G", "1", "!">>

\* "Abcdefg12": no special character
PwdNoSpecial == <<"A", "b", "c", "d", "e", "f", "g", "1", "2">>

\* "Abcdefgh" followed by ARABIC-INDIC DIGIT THREE: letters and one non-ASCII digit
PwdArabicDigit == <<"A", "b", "c", "d", "e", "f", "g", "h", "u0663">>

PasswordInputs ==
    {<<>>, PwdGood, PwdNoDigit, PwdShort, PwdNoUpper, PwdNoLower, PwdNoSpecial,
     PwdArabicDigit}

Forms(usernames, passwords) ==
    {[username |-> u, password |-> p] : u \in usernames, p \in passwords}

\* The remember checkbox: absent, or sent as one of the values remembers.
WithRemember(forms, remembers) ==
    forms \cup {[username |-> f.username, password |-> f.password, remember |-> r] :
                   f \in forms, r \in remembers}

\* Few account inputs, for the specification that is wide in the cart.
FewRegisterForms == Forms({alice}, {PwdGood, PwdNoDigit})

FewLoginForms == WithRemember(FewRegisterForms, {<<"o", "n">>})

\* One username in every spelling with every password, for the validation of register.
RegisterForms == Forms(UsernameInputs, PasswordInputs)

LoginForms == WithRemember(Forms(UsernameInputs, {PwdGood, PwdArabicDigit}), {<<"o", "n">>})

\* Two usernames with two passwords the code accepts, for logins among several users.
TwoUserRegisterForms == Forms({alice, bob, <<" ">> \o bob}, {PwdGood, PwdArabicDigit})

TwoUserLoginForms == WithRemember(TwoUserRegisterForms, {<<>>, <<"o", "n">>})

Salts == {"s1", "s2"}

OneSalt == {"s1"}

----------------------------------------------------------------------------
(* The state machine: one action per route.                                *)

cart_of(sess) == Get(sess, "cart", EmptyDict)

RECURSIVE SumQty(_, _)
SumQty(cart, keys) ==
    IF keys = {} THEN 0
    ELSE LET k == CHOOSE x \in keys : TRUE IN cart[k] + SumQty(cart, keys \ {k})

\* Units in the cart of a session.
Units(sess) == SumQty(cart_of(sess), DOMAIN cart_of(sess))

Req(endpoint, method, view_args, form) ==
    [endpoint |-> endpoint, method |-> method, view_args |-> view_args, form |-> form]

NoRequest == Req("", "", EmptyDict, EmptyDict)

\* The tabs of the browser; they share its one session cookie.
Tabs == {"tab1", "tab2"}

\* The request is answered: the browser stores the session cookie of the response.
Handle(req, res) ==
    /\ before' = [session |-> session, users |-> users]
    /\ request' = req
    /\ session' = res.session
    /\ users' = res.users
    /\ response' = res.response
    /\ registered' =
          IF req.endpoint = "register" /\ req.method = "POST"
                /\ res.response = redirect("index", <<>>)
          THEN registered \cup {[username |-> req.form.username,
                                  password |-> req.form.password,
                                  id |-> res.session["user_id"]]}
          ELSE registered
    /\ UNCHANGED <<products, inflight>>

\* History of the adds of product id pid after a request that may take units out.
Restart(sess, pid) ==
    [n |-> 0, ok |-> Str(pid) \notin DOMAIN cart_of(sess)]

Init ==
    /\ products = seed_data(EmptyDict)
    /\ users = <<>>
    /\ session = EmptyDict
    /\ before = [session |-> session, users |-> users]
    /\ request = NoRequest
    /\ response = render_template("", EmptyDict)
    /\ addCount = [pid \in DOMAIN products |-> [n |-> 0, ok |-> TRUE]]
    /\ inflight = [tab \in Tabs |-> None]
    /\ registered = {}

Index ==
    /\ Handle(Req("index", "GET", EmptyDict, EmptyDict),
              index(ensure_cart_exists(session), products, users))
    /\ UNCHANGED addCount

AddToCart(product_id) ==
    LET res == add_to_cart(ensure_cart_exists(session), products, users, product_id)
    IN  /\ Units(res.session) <= MaxUnits
        /\ Handle(Req("add_to_cart", "GET", [product_id |-> product_id], EmptyDict), res)
        /\ addCount' = [pid \in DOMAIN addCount |->
                          IF pid = product_id /\ addCount[pid].ok
                          THEN [addCount[pid] EXCEPT !.n = @ + 1]
                          ELSE addCount[pid]]

ViewCart ==
    /\ Handle(Req("view_cart", "GET", EmptyDict, EmptyDict),
              view_cart(ensure_cart_exists(session), products, users))
    /\ UNCHANGED addCount

RemoveFromCart(product_id) ==
    LET res == remove_from_cart(ensure_cart_exists(session), products, users, product_id)
    IN  /\ Handle(Req("remove_from_cart", "GET", [product_id |-> product_id], EmptyDict), res)
        /\ addCount' = [pid \in DOMAIN addCount |->
                          IF pid = product_id THEN Restart(res.session, pid)
                          ELSE addCount[pid]]

Checkout ==
    LET res == checkout(ensure_cart_exists(session), products, users)
    IN  /\ Handle(Req("checkout", "GET", EmptyDict, EmptyDict), res)
        /\ addCount' = [pid \in DOMAIN addCount |-> Restart(res.session, pid)]

Register(method, form, salt) ==
    /\ Handle(Req("register", method, EmptyDict, form),
              register(ensure_cart_exists(session), users, method, form, salt))
    /\ UNCHANGED addCount

Login(method, form) ==
    /\ Handle(Req("login", method, EmptyDict, form),
              login(ensure_cart_exists(session), users, method, form))
    /\ UNCHANGED addCount

Logout ==
    /\ Handle(Req("logout", "GET", EmptyDict, EmptyDict),
              logout(ensure_cart_exists(session), users))
    /\ UNCHANGED addCount

Profile ==
    /\ Handle(Req("profile", "GET", EmptyDict, EmptyDict),
              profile(ensure_cart_exists(session), users))
    /\ UNCHANGED addCount

ForgotPassword(method) ==
    /\ Handle(Req("forgot_password", method, EmptyDict, EmptyDict),
              forgot_password(ensure_cart_exists(session), users, method))
    /\ UNCHANGED addCount

\* Every route, with the inputs drawn from the given sets.  A GET of a form page
\* carries no form.
Requests(product_ids, register_forms, login_forms, salts) ==
    \/ Index
    \/ \E product_id \in product_ids : AddToCart(product_id)
    \/ ViewCart
    \/ \E product_id \in product_ids : RemoveFromCart(product_id)
    \/ Checkout
    \/ \E salt \in salts : Register("GET", EmptyDict, salt)
    \/ \E form \in register_forms, salt \in salts : Register("POST", form, salt)
    \/ Login("GET", EmptyDict)
    \/ \E form \in login_forms : Login("POST", form)
    \/ Logout
    \/ Profile
    \/ ForgotPassword("GET")
    \/ ForgotPassword("POST")

\* All routes; the inputs of the cart routes are the wide ones.
Next == Requests(ProductIdInputs, FewRegisterForms, FewLoginForms, OneSalt)

Spec == Init /\ [][Next]_vars

\* All routes; the inputs of register are the wide ones.
NextAccounts == Requests(FewProductIds, RegisterForms, LoginForms, Salts)

SpecAccounts == Init /\ [][NextAccounts]_vars

\* All routes; two users can register and log in.
NextTwoUsers == Requests(FewProductIds, TwoUserRegisterForms, TwoUserLoginForms, OneSalt)

SpecTwoUsers == Init /\ [][NextTwoUsers]_vars

----------------------------------------------------------------------------
(* A browser that comes back with a session cookie of an earlier run, to a *)
(* store from which product rows have since been deleted.                  *)

DeletedChoices == {{2}, {2, 3}}

\* The carts an earlier run over the seeded table can have left in the cookie.
RECURSIVE CartsOver(_)
CartsOver(ids) ==
    IF ids = {} THEN {EmptyDict}
    ELSE LET id == CHOOSE x \in ids : TRUE
             rest == CartsOver(ids \ {id})
         IN  rest \cup {Put(c, Str(id), q) : c \in rest, q \in 1..MaxUnits}

StaleCarts ==
    {c \in CartsOver(DOMAIN seed_data(EmptyDict)) : SumQty(c, DOMAIN c) <= MaxUnits}

InitStale ==
    /\ \E deleted \in DeletedChoices :
          products = [id \in (DOMAIN seed_data(EmptyDict)) \ deleted |->
                         seed_data(EmptyDict)[id]]
    /\ users = <<>>
    /\ \E c \in StaleCarts :
          \/ session = [cart |-> c]
          \/ session = [cart |-> c, user_id |-> 1]    \* of an account deleted since
    /\ before = [session |-> session, users |-> users]
    /\ request = NoRequest
    /\ response = render_template("", EmptyDict)
    /\ addCount = [pid \in DOMAIN products |-> Restart(session, pid)]
    /\ inflight = [tab \in Tabs |-> None]
    /\ registered = {}

SpecStale == InitStale /\ [][Next]_vars

----------------------------------------------------------------------------
(* Two tabs of one browser.  The session is Flask's default one, kept in   *)
(* the signed cookie: a request carries the cookie the browser holds when  *)
(* it is sent, the view function works on the dict decoded from it, and    *)
(* the response carries the dict back in a new cookie, which the browser   *)
(* stores in place of the one it holds.  The server handles requests in    *)
(* threads, so a tab can send a request while the other awaits its answer. *)

\* The requests a tab sends: the pages of the store and the cart routes.
TabRequests ==
    {Req("index", "GET", EmptyDict, EmptyDict),
     Req("view_cart", "GET", EmptyDict, EmptyDict),
     Req("checkout", "GET", EmptyDict, EmptyDict)}
    \cup {Req("add_to_cart", "GET", [product_id |-> id], EmptyDict) : id \in FewProductIds}
    \cup {Req("remove_from_cart", "GET", [product_id |-> id], EmptyDict) : id \in FewProductIds}

\* The view function the request is routed to, run on the session sess.
view_function(req, sess, table, usrs) ==
    CASE req.endpoint = "index" -> index(sess, table, usrs)
      [] req.endpoint = "add_to_cart" ->
            add_to_cart(sess, table, usrs, req.view_args.product_id)
      [] req.endpoint = "view_cart" -> view_cart(sess, table, usrs)
      [] req.endpoint = "remove_from_cart" ->
            remove_from_cart(sess, table, usrs, req.view_args.product_id)
      [] req.endpoint = "checkout" -> checkout(sess, table, usrs)

\* The session of a request sent with the newest cookie instead of its own
open_session_latest(tab) == session

\* The session a request works on: the dict in the cookie the request carries.
open_session(tab) == Val(inflight[tab]).cookie

\* The response carries a new cookie when the request has assigned to the
\* session: the hook or the view function changed it, or checkout assigned the
\* empty cart over an empty cart; and always when the session is permanent.
should_set_cookie(req, opened, saved) ==
    \/ saved # opened
    \/ req.endpoint = "checkout"
    \/ Get(saved, "_permanent", FALSE)

\* The tab sends the request with the cookie the browser holds.
Send(tab, req) ==
    /\ inflight[tab] = None
    /\ Units(view_function(req, ensure_cart_exists(session), products, users).session)
          <= MaxUnits
    /\ inflight' = [inflight EXCEPT ![tab] = Some([request |-> req, cookie |-> session])]
    /\ UNCHANGED <<products, users, session, before, request, response, addCount,
                   registered>>

\* The server answers the request of the tab and the browser stores the cookie
\* of the response.
Answer(tab) ==
    /\ inflight[tab] # None
    /\ LET req    == Val(inflight[tab]).request
           opened == open_session(tab)
           res    == view_function(req, ensure_cart_exists(opened), products, users)
           jar    == IF should_set_cookie(req, opened, res.session)
                     THEN res.session ELSE session
       IN  /\ before' = [session |-> Val(inflight[tab]).cookie, users |-> users]
           /\ request' = req
           /\ session' = jar
           /\ users' = res.users
           /\ response' = res.response
           /\ addCount' = [pid \in DOMAIN addCount |->
                 CASE req.endpoint = "add_to_cart" ->
                        IF pid = req.view_args.product_id /\ addCount[pid].ok
                        THEN [addCount[pid] EXCEPT !.n = @ + 1]
                        ELSE addCount[pid]
                   [] req.endpoint = "remove_from_cart" ->
                        IF pid = req.view_args.product_id THEN Restart(jar, pid)
                        ELSE addCount[pid]
                   [] req.endpoint = "checkout" -> Restart(jar, pid)
                   [] OTHER -> addCount[pid]]
    /\ inflight' = [inflight EXCEPT ![tab] = None]
    /\ UNCHANGED <<products, registered>>

NextTabs ==
    \/ \E tab \in Tabs, req \in TabRequests : Send(tab, req)
    \/ \E tab \in Tabs : Answer(tab)

SpecTabs == Init /\ [][NextTabs]_vars

----------------------------------------------------------------------------
(* The cart: properties.                                                   *)

\* What the last request was about.
LastKey == Str(request.view_args.product_id)

CartBefore == cart_of(before.session)

CartAfter == cart_of(session)

\* C1: for every existing product id, after n add_to_cart requests for it since
\* its entry was absent, with no remove_from_cart of it and no checkout in
\* between, the stored quantity is n (no entry for n = 0), whatever other
\* requests came in between.
C1_QuantityIsAddCount ==
    \A pid \in DOMAIN products :
        addCount[pid].ok =>
            IF addCount[pid].n = 0
            THEN Str(pid) \notin DOMAIN CartAfter
            ELSE Str(pid) \in DOMAIN CartAfter /\ CartAfter[Str(pid)] = addCount[pid].n

\* Two adds of one product since its entry was absent, with a registration in the run.
C1_Witness ==
    /\ users # <<>>
    /\ \E pid \in DOMAIN products :
          addCount[pid].ok /\ addCount[pid].n = 2 /\ Str(pid) \in DOMAIN CartAfter

\* C2: remove_from_cart(pid) deletes the key of a quantity-1 entry, leaves q - 1
\* of a quantity q > 1, leaves the cart as it is when pid has no entry, and in
\* all three cases changes no other entry.
C2_RemoveOne ==
    request.endpoint = "remove_from_cart" =>
        /\ (LastKey \in DOMAIN CartBefore /\ CartBefore[LastKey] = 1)
              => LastKey \notin DOMAIN CartAfter
        /\ (LastKey \in DOMAIN CartBefore /\ CartBefore[LastKey] > 1)
              => (LastKey \in DOMAIN CartAfter
                  /\ CartAfter[LastKey] = CartBefore[LastKey] - 1)
        /\ LastKey \notin DOMAIN CartBefore => CartAfter = CartBefore
        /\ \A k \in ((DOMAIN CartBefore) \cup (DOMAIN CartAfter)) \ {LastKey} :
              k \in DOMAIN CartBefore /\ k \in DOMAIN CartAfter /\ CartAfter[k] = CartBefore[k]

\* The last unit of one product was removed from a cart that holds another product.
C2_Witness ==
    /\ request.endpoint = "remove_from_cart"
    /\ LastKey \in DOMAIN CartBefore /\ CartBefore[LastKey] = 1
    /\ LastKey \notin DOMAIN CartAfter
    /\ DOMAIN CartAfter # {}

\* C3: every quantity stored in the session cart is an integer >= 1.
C3_QuantitiesPositive ==
    \A k \in DOMAIN CartAfter : CartAfter[k] \in Nat /\ CartAfter[k] >= 1

\* The only unit in the cart was removed: the cart is empty, no entry holds 0.
C3_Witness ==
    /\ request.endpoint = "remove_from_cart"
    /\ DOMAIN CartBefore = {LastKey} /\ CartBefore[LastKey] = 1
    /\ CartAfter = EmptyDict

RECURSIVE SumOfLines(_, _, _)
\* The sum of price * quantity over the cart entries with the given keys.
SumOfLines(cart, table, keys) ==
    IF keys = {} THEN 0
    ELSE LET k == CHOOSE x \in keys : TRUE
         IN  table[ParseInt(k)].price * cart[k] + SumOfLines(cart, table, keys \ {k})

\* The keys of the cart whose product exists.
Resolving(cart, table) == {k \in DOMAIN cart : ParseInt(k) \in DOMAIN table}

\* C4: the total view_cart and checkout show is, in minor units, the sum of
\* price * quantity over exactly the cart entries whose product exists; the
\* items are those entries and no other; checkout shows what view_cart would
\* show of the same cart.
C4_Totals ==
    request.endpoint \in {"view_cart", "checkout"} =>
        LET live  == Resolving(CartBefore, products)
            items == response.context.items
            total == response.context.total
        IN  /\ response.kind = "render"
            /\ total.hundredths \in 0..99
            /\ 100 * total.units + total.hundredths = SumOfLines(CartBefore, products, live)
            /\ Len(items) = Cardinality(live)
            /\ {Str(items[i].product.id) : i \in 1..Len(items)} = live
            /\ \A i \in 1..Len(items) :
                  /\ items[i].product = products[items[i].product.id]
                  /\ items[i].quantity = CartBefore[Str(items[i].product.id)]
                  /\ 100 * items[i].line_total.units + items[i].line_total.hundredths
                        = items[i].product.price * items[i].quantity
            /\ request.endpoint = "checkout" =>
                  response.context = view_cart(before.session, products, users).response.context

\* A cart holding a product that exists and one that does not was checked out.
C4_Witness ==
    /\ request.endpoint = "checkout"
    /\ Resolving(CartBefore, products) # {}
    /\ Resolving(CartBefore, products) # DOMAIN CartBefore
    /\ Len(response.context.items) = 1

\* C5: after a checkout request the session cart is the empty mapping.
C5_CheckoutEmpties ==
    request.endpoint = "checkout" => ("cart" \in DOMAIN session /\ session["cart"] = EmptyDict)

\* A cart holding only ids of products that do not exist was checked out.
C5_Witness ==
    /\ request.endpoint = "checkout"
    /\ DOMAIN CartBefore # {}
    /\ Resolving(CartBefore, products) = {}
    /\ session["cart"] = EmptyDict

----------------------------------------------------------------------------
(* Accounts: properties.                                                   *)

RegisterPosted == request.endpoint = "register" /\ request.method = "POST"

LoginPosted == request.endpoint = "login" /\ request.method = "POST"

\* The username of the last form as the handlers read it, and its password.
Username == strip(Get(request.form, "username", <<>>))

Password == Get(request.form, "password", <<>>)

Taken(usrs, name) == \E i \in 1..Len(usrs) : usrs[i].username = name

\* The request ended in the redirect to the home page that register and login
\* answer with on success.
Succeeded == response.kind = "redirect" /\ response.target = "index"

\* Both sessions are logged out, or logged in as the same user.
SameLogin(s1, s2) ==
    /\ ("user_id" \in DOMAIN s1) <=> ("user_id" \in DOMAIN s2)
    /\ "user_id" \in DOMAIN s1 => s1["user_id"] = s2["user_id"]

SamePermanence(s1, s2) ==
    /\ ("_permanent" \in DOMAIN s1) <=> ("_permanent" \in DOMAIN s2)
    /\ "_permanent" \in DOMAIN s1 => s1["_permanent"] = s2["_permanent"]

\* C6 as stated: registering a taken username ends in 'Username already
\* exists.', whatever the password, and leaves the User table as it was.
C6_TakenAlwaysExistsMessage ==
    (RegisterPosted /\ Taken(before.users, Username)) =>
        (response = redirect("register", <<MsgExists>>) /\ users = before.users)

\* C6, amended: registering a taken username fails and leaves the User table as
\* it was; the message is 'Username already exists.' when the password is not
\* empty and 'Username and password are required.' when it is.
C6_TakenFails ==
    (RegisterPosted /\ Taken(before.users, Username)) =>
        /\ response = redirect("register",
                               <<IF Password = <<>> THEN MsgRequired ELSE MsgExists>>)
        /\ users = before.users

\* A taken username was registered again with another password the policy accepts.
C6_Witness ==
    /\ RegisterPosted
    /\ Taken(before.users, Username)
    /\ is_password_valid(Password)
    /\ ~check_password(before.users[1], Password)
    /\ response.flashes = <<MsgExists>>

\* The policy in the words of C7: a lowercase letter, an uppercase letter, a
\* digit, and a character that is neither a letter nor a digit.
ClaimedPolicy(pwd) ==
    /\ Len(pwd) >= 8
    /\ \E i \in 1..Len(pwd) : pwd[i] \in LowerAZ
    /\ \E i \in 1..Len(pwd) : pwd[i] \in UpperAZ
    /\ \E i \in 1..Len(pwd) : pwd[i] \in Digits09 \cup OtherDecimalDigits
    /\ \E i \in 1..Len(pwd) :
          pwd[i] \notin LowerAZ \cup UpperAZ \cup Digits09 \cup OtherDecimalDigits

\* C7: a registration with a non-empty username that is not taken succeeds if
\* and only if the password has 8 characters or more, a lowercase letter, an
\* uppercase letter, a digit and a non-alphanumeric character.
C7_SucceedsIffPolicy ==
    (RegisterPosted /\ Username # <<>> /\ ~Taken(before.users, Username)) =>
        (Succeeded <=> ClaimedPolicy(Password))

\* C8: a registration that fails leaves the User table and the session's
\* user_id as they were.
C8_FailureChangesNothing ==
    (RegisterPosted /\ ~Succeeded) =>
        /\ response.kind = "redirect" /\ response.target = "register"
        /\ response.flashes \in {<<MsgRequired>>, <<MsgExists>>, <<MsgWeak>>}
        /\ users = before.users
        /\ SameLogin(before.session, session)

\* A logged-in user posted a registration with a field empty and is still logged in.
C8_Witness ==
    /\ RegisterPosted
    /\ response.flashes = <<MsgRequired>>
    /\ "user_id" \in DOMAIN session
    /\ users # <<>>

\* C9: a registration that succeeds adds one row, with the username of the form
\* (stripped, as register reads it), to the User table and changes no other;
\* the row holds a hash that verifies the password and is not the password; the
\* session's user_id is the id of the new row, which no other row has.
C9_SuccessAddsUser ==
    (RegisterPosted /\ Succeeded) =>
        LET new == users[Len(users)]
        IN  /\ Len(users) = Len(before.users) + 1
            /\ SubSeq(users, 1, Len(before.users)) = before.users
            /\ new.username = Username
            /\ new.password_hash # Password
            /\ check_password_hash(new.password_hash, Password)
            /\ \A i \in 1..Len(before.users) : users[i].id # new.id
            /\ "user_id" \in DOMAIN session /\ session["user_id"] = new.id

\* A second user registered in the session in which the first was logged in.
C9_Witness ==
    /\ RegisterPosted /\ Succeeded
    /\ Len(users) = 2
    /\ "user_id" \in DOMAIN before.session /\ before.session["user_id"] = users[1].id
    /\ session["user_id"] = users[2].id

\* No user has the username of the form.
UnknownUsername == ~Taken(before.users, Username)

\* A user has the username of the form and a password hash the password fails.
WrongPassword ==
    \E i \in 1..Len(before.users) :
        /\ before.users[i].username = Username
        /\ ~check_password_hash(before.users[i].password_hash, Password)

\* C10: a login with the username of a user and a wrong password and a login
\* with a username no user has get the same answer, the redirect to login with
\* 'Invalid username or password.', and leave the session's user_id, permanence
\* flag and cart and the User table as they were.
C10_FailedLoginsAlike ==
    (LoginPosted /\ (UnknownUsername \/ WrongPassword)) =>
        /\ response = redirect("login", <<MsgInvalid>>)
        /\ users = before.users
        /\ SameLogin(before.session, session)
        /\ SamePermanence(before.session, session)
        /\ cart_of(session) = cart_of(before.session)

\* A logged-in user with a cart posted the username of another user with a wrong password.
C10_Witness ==
    /\ LoginPosted /\ WrongPassword
    /\ "user_id" \in DOMAIN session
    /\ \E i \in 1..Len(users) : users[i].username = Username /\ users[i].id # session["user_id"]
    /\ cart_of(session) # EmptyDict
    /\ response.flashes = <<MsgInvalid>>

\* The remember input of the last form is truthy: present and not empty.
RememberTruthy ==
    "remember" \in DOMAIN request.form /\ request.form["remember"] # <<>>

\* C11: after a login that succeeds the session's user_id is the id of the user
\* who has the username of the form and whose hash verifies its password, and
\* the session is permanent (its cookie expires after 30 days) if remember is
\* truthy and not permanent (its cookie expires with the browser session) if
\* not, whatever the flag was before.
C11_LoginSetsUserAndPermanence ==
    (LoginPosted /\ Succeeded) =>
        /\ "user_id" \in DOMAIN session
        /\ \E i \in 1..Len(before.users) :
              /\ before.users[i].username = Username
              /\ check_password_hash(before.users[i].password_hash, Password)
              /\ session["user_id"] = before.users[i].id
        /\ \A i \in 1..Len(before.users) :
              before.users[i].username = Username =>
                  session["user_id"] = before.users[i].id
        /\ "_permanent" \in DOMAIN session
        /\ session["_permanent"] = RememberTruthy
        /\ get_expiration_time(session) = IF RememberTruthy THEN Some(30) ELSE None

\* A login without remember succeeded in a session an earlier login had made
\* permanent, and the session is no longer permanent.
C11_Witness ==
    /\ LoginPosted /\ Succeeded
    /\ ~RememberTruthy
    /\ "_permanent" \in DOMAIN before.session /\ before.session["_permanent"]
    /\ "_permanent" \in DOMAIN session /\ ~session["_permanent"]
    /\ get_expiration_time(session) = None

\* What one more logout request would leave of the session.
LogoutAgain == logout(ensure_cart_exists(session), users).session

\* C12: after a logout the session has no user_id, whether it had one before
\* or not, and a second logout right after it leaves the session as the first
\* left it.
C12_LogoutIdempotent ==
    request.endpoint = "logout" =>
        /\ "user_id" \notin DOMAIN session
        /\ LogoutAgain = session
        /\ response = redirect("index", <<>>)

\* A user who had logged in with remember logged out: the session has lost its
\* user_id and one more logout would change nothing.
C12_Witness ==
    /\ request.endpoint = "logout"
    /\ "user_id" \in DOMAIN before.session
    /\ Get(before.session, "_permanent", FALSE)
    /\ "user_id" \notin DOMAIN session
    /\ LogoutAgain = session

\* The last request was for the profile page.
ProfileRequested == request.endpoint = "profile"

\* The session the last request met had a user_id.
HadUserId == "user_id" \in DOMAIN before.session

\* The rows of the User table the last request met that have the session's user_id.
ResolvedUsers ==
    IF HadUserId
    THEN {i \in 1..Len(before.users) : before.users[i].id = before.session["user_id"]}
    ELSE {}

\* C13: a profile request whose session has a user_id no user has removes the
\* user_id and redirects to login; one whose session has no user_id redirects
\* to login and leaves the session as it was; one whose user_id is the id of a
\* user shows that user and leaves the session as it was.  None changes the
\* User table, the cart or the permanence flag.
C13_Profile ==
    ProfileRequested =>
        /\ users = before.users
        /\ cart_of(session) = cart_of(before.session)
        /\ SamePermanence(before.session, session)
        /\ (HadUserId /\ ResolvedUsers = {}) =>
              /\ "user_id" \notin DOMAIN session
              /\ response = redirect("login", <<>>)
        /\ ~HadUserId =>
              /\ "user_id" \notin DOMAIN session
              /\ response = redirect("login", <<>>)
        /\ ResolvedUsers # {} =>
              /\ SameLogin(before.session, session)
              /\ \E i \in ResolvedUsers :
                    response = render_template("profile.html", [user |-> before.users[i]])

\* The profile page was requested with the user_id of an account that no longer
\* exists, in a session with a cart: the user_id is gone, the cart is not.
C13_Witness ==
    /\ ProfileRequested
    /\ HadUserId /\ ResolvedUsers = {}
    /\ "user_id" \notin DOMAIN session
    /\ cart_of(session) # EmptyDict
    /\ response.target = "login"

\* The last request was an add_to_cart of a product id the Product table lacks.
AddedMissingProduct ==
    /\ request.endpoint = "add_to_cart"
    /\ request.view_args.product_id \notin DOMAIN products

\* C14: add_to_cart of a product id that is not in the Product table leaves the
\* cart as it was: the same keys with the same quantities, and no entry for the
\* id if there was none.
C14_AddMissingIsNoOp ==
    AddedMissingProduct =>
        /\ DOMAIN CartAfter = DOMAIN CartBefore
        /\ \A k \in DOMAIN CartBefore : CartAfter[k] = CartBefore[k]
        /\ LastKey \notin DOMAIN CartBefore => LastKey \notin DOMAIN CartAfter
        /\ response = redirect("index", <<>>)

\* A product id that was never in the table was added to a cart that holds
\* another product: the cart has no entry for it.
C14_Witness ==
    /\ AddedMissingProduct
    /\ request.view_args.product_id = 10
    /\ CartBefore # EmptyDict
    /\ CartAfter = CartBefore
    /\ Str(10) \notin DOMAIN CartAfter

----------------------------------------------------------------------------
(* Two tabs: properties.                                                   *)

\* C15: when tabs have cart requests in flight at the same time, the cart the
\* browser holds after an answer is the cart of the cookie the answered request
\* carried with that request's change alone, whatever the other tab's request
\* wrote in between (the last write wins), and the answer is the usual one,
\* with no sign of a conflict.
C15_LastWriteWins ==
    /\ (request.endpoint = "add_to_cart"
            /\ request.view_args.product_id \in DOMAIN products) =>
          /\ CartAfter = Put(CartBefore, LastKey, Get(CartBefore, LastKey, 0) + 1)
          /\ response = redirect("index", <<>>)
    /\ (request.endpoint = "remove_from_cart" /\ LastKey \in DOMAIN CartBefore) =>
          /\ CartAfter = IF CartBefore[LastKey] > 1
                         THEN Put(CartBefore, LastKey, CartBefore[LastKey] - 1)
                         ELSE Pop(CartBefore, LastKey)
          /\ response = redirect("view_cart", <<>>)
    /\ request.endpoint = "checkout" =>
          /\ CartAfter = EmptyDict
          /\ response.kind = "render" /\ response.flashes = <<>>

\* Two add_to_cart requests for product 1 were in flight together and both are
\* answered: the quantity in the cart is 1, not 2.
C15_Witness ==
    /\ \A tab \in Tabs : inflight[tab] = None
    /\ request.endpoint = "add_to_cart" /\ request.view_args.product_id = 1
    /\ addCount[1].ok /\ addCount[1].n = 2
    /\ LastKey \notin DOMAIN CartBefore
    /\ CartAfter = Put(EmptyDict, LastKey, 1)
    /\ response = redirect("index", <<>>)

----------------------------------------------------------------------------
(* Frames: what a request leaves alone.                                    *)

\* C16: a checkout changes nothing but the cart of the session: the Product
\* table, the User table, the session's user_id and its permanence flag are
\* after it what they were before it, and it adds no key to the session (the
\* tables and the session are all the state there is: nothing records an order).
C16_CheckoutFrame ==
    [][Checkout =>
          /\ products' = products
          /\ users' = users
          /\ SameLogin(session, session')
          /\ SamePermanence(session, session')
          /\ DOMAIN session' = DOMAIN session \cup {"cart"}
          /\ session'["cart"] = EmptyDict]_vars

\* A logged-in user with a permanent session checked out a cart that was not
\* empty: the cart is empty, the user is still logged in, the session still
\* permanent.
C16_Witness ==
    /\ request.endpoint = "checkout"
    /\ CartBefore # EmptyDict
    /\ CartAfter = EmptyDict
    /\ "user_id" \in DOMAIN session
    /\ Get(session, "_permanent", FALSE)
    /\ users = before.users /\ users # <<>>

\* The endpoints of the account routes.
AccountEndpoints == {"register", "login", "logout", "profile", "forgot_password"}

----------------------------------------------------------------------------
(* The cart of a store whose products are never deleted.                   *)

\* The keys a cart over the table can have: the string forms of the ids.
KeysOf(table) == {Str(id) : id \in DOMAIN table}

\* C18: with the Product table as seeded, in every state reached from a fresh
\* session every key of the cart is the string form of the id of a product in
\* the table; so view_cart and checkout skip no entry: they show one item for
\* each key, and their total is the sum of price * quantity over all of them.
C18_CartKeysExist ==
    /\ products = seed_data(EmptyDict)
    /\ DOMAIN cart_of(session) \subseteq KeysOf(products)
    /\ DOMAIN CartBefore \subseteq KeysOf(products)
    /\ request.endpoint \in {"view_cart", "checkout"} =>
          LET items == response.context.items
              total == response.context.total
          IN  /\ Len(items) = Cardinality(DOMAIN CartBefore)
              /\ {Str(items[i].product.id) : i \in 1..Len(items)} = DOMAIN CartBefore
              /\ 100 * total.units + total.hundredths
                    = SumOfLines(CartBefore, products, DOMAIN CartBefore)

\* A cart of two products, built from a fresh session amid requests for ids
\* that do not exist, was viewed: two items, and the total of both.
C18_Witness ==
    /\ request.endpoint = "view_cart"
    /\ Cardinality(DOMAIN CartBefore) = 2
    /\ Len(response.context.items) = 2
    /\ 100 * response.context.total.units + response.context.total.hundredths
          = SumOfLines(CartBefore, products, DOMAIN CartBefore)
    /\ response.context.total.units > 0

----------------------------------------------------------------------------
(* The permanence flag.                                                    *)

----------------------------------------------------------------------------
(* Register, then log in.                                                  *)

\* The registrations that succeeded with the username the last form has, as typed.
RegisteredAsPosted == {r \in registered : r.username = request.form.username}

\* C20: after a registration with a username and a password has succeeded, a
\* login at any later time with the same username and the same password
\* succeeds and sets the session's user_id to the id the registration gave, and
\* a login with the same username and another password fails and leaves the
\* session's user_id as it was.
C20_RegisterThenLogin ==
    LoginPosted =>
        \A r \in RegisteredAsPosted :
            IF request.form.password = r.password
            THEN /\ Succeeded
                 /\ "user_id" \in DOMAIN session /\ session["user_id"] = r.id
            ELSE /\ response = redirect("login", <<MsgInvalid>>)
                 /\ SameLogin(before.session, session)

\* The second user, registered with a blank before the name, logged in with
\* the username and password of the registration while the first user was
\* logged in.
C20_Witness ==
    /\ LoginPosted /\ Succeeded
    /\ \E r \in RegisteredAsPosted :
          /\ r.password = request.form.password
          /\ r.username # strip(r.username)
          /\ r.id = 2
          /\ session["user_id"] = r.id
    /\ "user_id" \in DOMAIN before.session /\ before.session["user_id"] = 1

====
